---- MODULE Spec2Model ----
(***************************************************************************)
(* Model of render_integration.py: the FastAPI shim that downloads a model *)
(* from a URL, drains the injected rigging pipeline, selects an output     *)
(* file and uploads it to the storage backend.                             *)
(*                                                                         *)
(* Strings that the code splits on '/' are modelled as the sequence of     *)
(* their '/'-separated segments; paths are <<dir, stem, ext>>; message     *)
(* strings built by f-strings are the sequence of their parts.             *)
(***************************************************************************)
EXTENDS Naturals, Sequences, FiniteSets, TLC

\* ------------------------------------------------------------------ bounds
NReq == 2         \* request slots handled by the server at the same time
NChunks == 2      \* chunks a complete download streams
MaxSteps == 2     \* intermediate steps the pipeline generator may yield

Requests == 1..NReq

\* ------------------------------------------------------------ the inputs
UrlA == <<"http:", "", "hostA", "m.glb">>
UrlB == <<"http:", "", "hostB", "m.glb">>
UrlDir == <<"http:", "", "hostA", "models", "">>
URLs == {UrlA, UrlB, UrlDir}
EmptyStr == <<"">>
JsonNull == <<"null">>
JsonStr(s) == <<"str", s>>

\* A request body: not JSON at all, a JSON list, or a JSON object (a set of
\* key/value pairs) with or without a "url" member.
Bodies ==
  {[kind |-> "malformed", fields |-> {}], [kind |-> "list", fields |-> {}],
   [kind |-> "dict", fields |-> {}],
   [kind |-> "dict", fields |-> {<<"url", JsonNull>>}],
   [kind |-> "dict", fields |-> {<<"url", JsonStr(EmptyStr)>>}]}
  \cup {[kind |-> "dict", fields |-> {<<"url", JsonStr(u)>>}] : u \in URLs}

Endpoints == {"rig", "animate"}

NoPath == <<>>
VisPath == <<"out", "vis", "glb">>
AnimPath == <<"out", "anim", "fbx">>
EmptyDB == [anim_vis_path |-> NoPath, anim_path |-> NoPath]

UploadTarget == "https://viverse-backend.onrender.com/api/upload-rigged-model"
PrimaryAnimation == <<"..", "data", "Standard Run", "fbx">>
FallbackAnimation == <<".", "data", "Standard Run", "fbx">>
NoAnimation == <<>>

VARIABLES
  state,      \* api_app.state: the two collaborator references
  serverUp,   \* uvicorn.run is serving
  loop,       \* the requests whose coroutine occupies the event loop thread
  fs,         \* the scratch directory: file name -> chunks written, or absent
  pc,         \* each request's position in its handler
  endpoint,   \* the endpoint a request was posted to
  body,       \* the request's body
  n,          \* chunks written so far, then pipeline steps drained so far
  db,         \* the request's result record
  files,      \* the output files the pipeline has put on disk for the request
  sel,        \* rigged_path / animated_path
  trace,      \* the handler's steps so far: each call and what came back
  resp        \* the payloads returned for the request

vars == <<state, serverUp, loop, fs, pc, endpoint, body, n, db, files, sel,
          trace, resp>>

Absent == [exists |-> FALSE, data |-> <<>>]
Segments == {u[Len(u)] : u \in URLs} \ {""}

Init ==
  /\ state = [pipeline_function |-> "unset", DB_class |-> "unset"]
  /\ serverUp = FALSE
  /\ loop = {}
  /\ fs = [s \in Segments |-> Absent]
  /\ pc = [r \in Requests |-> "idle"]
  /\ endpoint = [r \in Requests |-> "rig"]
  /\ body = [r \in Requests |-> [kind |-> "malformed", fields |-> {}]]
  /\ n = [r \in Requests |-> 0]
  /\ db = [r \in Requests |-> EmptyDB]
  /\ files = [r \in Requests |-> {}]
  /\ sel = [r \in Requests |-> NoPath]
  /\ trace = [r \in Requests |-> <<>>]
  /\ resp = [r \in Requests |-> <<>>]

\* ------------------------------------------------------- pure operations
\* data.get("url"): the member's value, or None.
DictGet(data, key) ==
  IF \E p \in data.fields : p[1] = key
  THEN (CHOOSE p \in data.fields : p[1] = key)[2]
  ELSE JsonNull

\* Mutant of Falsy: the test `is None` in place of truthiness.
FalsyNoneOnly(v) == v[1] = "null"

\* Python truthiness of a JSON value: None and "" are falsy.
Falsy(v) == v[1] = "null" \/ (v[1] = "str" /\ v[2] = EmptyStr)

\* model_url.split('/')[-1]
LastSegment(url) == url[Len(url)]

\* os.path.join(tempfile.gettempdir(), model_url.split('/')[-1])
LocalFilename(url) == LastSegment(url)

\* What the server sends for a URL: NChunks chunks, each its own.
Content(url) == [i \in 1..NChunks |-> <<url[3], url[Len(url)], i>>]

\* str(int) inside the f-string of the upload failure message.
Str(code) ==
  CASE code = 200 -> "200" [] code = 201 -> "201" [] code = 404 -> "404"
    [] code = 500 -> "500"

\* s.lower() on a file extension.
Lower(ext) == CASE ext = "GLB" -> "glb" [] ext = "FBX" -> "fbx" [] OTHER -> ext

\* path.lower().endswith(".glb")
EndsWithGlb(path) == Lower(path[Len(path)]) = "glb"

\* os.path.basename(path)
Basename(path) == <<path[Len(path) - 1], path[Len(path)]>>

Err(msg) == [status |-> "error", message |-> msg, persistentUrl |-> EmptyStr]
Done(url) == [status |-> "done", message |-> <<>>, persistentUrl |-> url]

\* Mutant of Catch: a handler that catches the JSON error only; anything else
\* escapes and the framework answers 500 with no payload of the handler's.
CatchNarrow(text) ==
  IF text = "JSONDecodeError" THEN Err(<<text>>)
  ELSE [status |-> "500", message |-> <<"Internal Server Error">>,
        persistentUrl |-> EmptyStr]

\* except Exception as e: return {"status": "error", "message": str(e)}
Catch(text) == Err(<<text>>)

UrlRequiredMsg(e) ==
  IF e = "rig" THEN <<"Model URL is required">>
  ELSE <<"Model URL is required for animation">>

NoOutputMsg(e) ==
  IF e = "rig" THEN <<"Rigging failed: output file not found">>
  ELSE <<"Animation failed: output file not found">>

\* Mutant of UploadFailedMsg: the message without the status code.
UploadFailedMsgNoCode(code) == <<"Upload to Render.com failed">>

UploadFailedMsg(code) ==
  <<"Upload to Render.com failed with status code ", Str(code)>>

NoPersistentMsg == <<"No persistent URL returned from Render.com">>

\* os.path.isfile(path) for an output path of request r.
IsFile(present, path) == path \in present

\* Mutant of SelectOutput: the native path tried first.
SelectOutputNativeFirst(rec, present) ==
  IF rec.anim_path # NoPath /\ IsFile(present, rec.anim_path)
  THEN rec.anim_path
  ELSE IF rec.anim_vis_path # NoPath /\ IsFile(present, rec.anim_vis_path)
       THEN rec.anim_vis_path
       ELSE NoPath

\* Mutant of SelectOutput: the fallback taken without looking at the disk.
SelectOutputUncheckedFallback(rec, present) ==
  IF rec.anim_vis_path # NoPath /\ IsFile(present, rec.anim_vis_path)
  THEN rec.anim_vis_path
  ELSE rec.anim_path

\* The output selection: the preview path when set and on disk, else the
\* native path when set and on disk, else nothing.
SelectOutput(rec, present) ==
  IF rec.anim_vis_path # NoPath /\ IsFile(present, rec.anim_vis_path)
  THEN rec.anim_vis_path
  ELSE IF rec.anim_path # NoPath /\ IsFile(present, rec.anim_path)
       THEN rec.anim_path
       ELSE NoPath

\* The MIME type of the uploaded part: fixed in the rig handler, chosen by
\* extension in the animate handler.
MimeType(e, path) ==
  IF e = "rig" THEN "model/gltf-binary"
  ELSE IF EndsWithGlb(path) THEN "model/gltf-binary"
       ELSE "application/octet-stream"

\* A step of the handler that is no call to a collaborator or the network.
Step(op) ==
  [op |-> op, target |-> "", field |-> "", filename |-> <<>>, mime |-> "",
   clientType |-> "", arg |-> <<>>]

\* The multipart POST the handler issues for the selected path.
UploadCall(e, path) ==
  [op |-> "POST", target |-> UploadTarget, field |-> "modelFile",
   filename |-> Basename(path), mime |-> MimeType(e, path),
   clientType |-> "playcanvas", arg |-> <<>>]

\* requests.get(model_url, stream=True)
GetCall(url) == [Step("GET") EXCEPT !.target = "model_url", !.arg = <<url>>]

\* DB_class()
DBCall == Step("DB_class")

\* pipeline_function(input_path=local_filename, ..., animation_file=...,
\* original_filename=model_url): arg is <<input_path, animation_file, url>>.
PipelineCall(url, animation_file) ==
  [Step("pipeline_function") EXCEPT
     !.arg = <<<<LocalFilename(url)>>, animation_file, url>>]

\* One entry of a request's trace: the call and what it answered.
Event(c, out) == [call |-> c, out |-> out]

\* The animation_file argument: None for rig; for animate the first of the
\* two candidate paths that is a file, or nothing when neither is.
AnimationFile(e, present) ==
  IF e = "rig" THEN NoAnimation
  ELSE IF PrimaryAnimation \in present THEN PrimaryAnimation
       ELSE IF FallbackAnimation \in present THEN FallbackAnimation
            ELSE NoAnimation

\* The URL the storage backend hands back for an uploaded part.
PersistentUrlOf(filename) == <<"https:", "", "storage">> \o filename

\* Mutant of GetRaises: no raise_for_status(), so only a failed connection
\* raises.
GetRaisesNoStatusCheck(out) == IF out = "ConnectionError" THEN out ELSE ""

\* requests.get(...) followed by r.raise_for_status(): the text of the
\* exception raised for what the GET came back with, "" when none is.
GetRaises(out) ==
  IF out = "200" THEN ""
  ELSE IF out = "404" THEN "404 Client Error"
  ELSE out

\* Mutant of LoopExits: the loop left after the first step it is handed.
LoopExitsAtFirstStep(out) == out \in {"StopIteration", "yield"}

\* The `for step in pipeline_function(...)` loop is left only when the
\* generator is exhausted.
LoopExits(out) == out = "StopIteration"

\* response.status_code of an answer of the storage backend.
StatusCode(s) == CASE s = "200" -> 200 [] s = "201" -> 201 [] s = "500" -> 500

\* response.json() of an answer: the parsed object, or not JSON at all.
ResponseJson(kind, filename) ==
  CASE kind = "url" ->
         [kind |-> "dict",
          fields |-> {<<"persistentUrl", JsonStr(PersistentUrlOf(filename))>>}]
    [] kind = "empty" ->
         [kind |-> "dict", fields |-> {<<"persistentUrl", JsonStr(EmptyStr)>>}]
    [] kind = "nofield" -> [kind |-> "dict", fields |-> {}]
    [] OTHER -> [kind |-> "malformed", fields |-> {}]

\* Mutant of UploadResult: the persistentUrl tested with `is None`.
UploadResultNoneCheck(post, a) ==
  IF StatusCode(a[1]) # 200
  THEN Err(UploadFailedMsg(StatusCode(a[1])))
  ELSE LET result == ResponseJson(a[2], post.filename) IN
       IF result.kind = "malformed" THEN Catch("JSONDecodeError")
       ELSE IF DictGet(result, "persistentUrl")[1] = "null"
       THEN Err(NoPersistentMsg)
       ELSE Done(DictGet(result, "persistentUrl")[2])

\* What the handler returns for an answer <<status, body>> to its POST: the
\* status check, response.json(), result.get("persistentUrl"), the payload.
UploadResult(post, a) ==
  IF StatusCode(a[1]) # 200
  THEN Err(UploadFailedMsg(StatusCode(a[1])))
  ELSE LET result == ResponseJson(a[2], post.filename) IN
       IF result.kind = "malformed" THEN Catch("JSONDecodeError")
       ELSE IF Falsy(DictGet(result, "persistentUrl"))
       THEN Err(NoPersistentMsg)
       ELSE Done(DictGet(result, "persistentUrl")[2])

\* -------------------------------------------------------------- scheduling
\* Mutant of OnEventLoop: handlers run on a pool of threads (plain `def`
\* routes), so any of them may take its next step at any time.
OnThreadPool(r) == TRUE

\* Both handlers are coroutines (async def) served by the one event loop
\* uvicorn.run starts. Their only suspension point is `await request.json()`;
\* everything after it is blocking code, so from that point to the return
\* the coroutine keeps the loop's thread and no other handler runs.
OnEventLoop(r) == loop \subseteq {r}

ModelUrl(r) == DictGet(body[r], "url")[2]

Log(r, events) == trace' = [trace EXCEPT ![r] = @ \o events]

\* return <payload>: the handler ends and gives the loop back.
Return(r, payload) ==
  /\ resp' = [resp EXCEPT ![r] = Append(@, payload)]
  /\ pc' = [pc EXCEPT ![r] = "done"]
  /\ loop' = {}

\* The handler goes on to its next statement, still on the loop.
Goto(r, label) ==
  /\ pc' = [pc EXCEPT ![r] = label]
  /\ loop' = {r}
  /\ UNCHANGED resp

\* ----------------------------------------------------------------- actions
\* run_api: store the collaborators, then serve.
run_api ==
  /\ ~serverUp
  /\ state' = [pipeline_function |-> "_pipeline", DB_class |-> "DB"]
  /\ serverUp' = TRUE
  /\ UNCHANGED <<loop, fs, pc, endpoint, body, n, db, files, sel, trace, resp>>

\* A POST arrives at one of the two routes; the handler starts and suspends
\* at `await request.json()`.
Arrive(r) ==
  /\ serverUp
  /\ pc[r] = "idle"
  /\ \E e \in Endpoints, b \in Bodies :
       /\ endpoint' = [endpoint EXCEPT ![r] = e]
       /\ body' = [body EXCEPT ![r] = b]
  /\ pc' = [pc EXCEPT ![r] = "await_json"]
  /\ UNCHANGED <<state, serverUp, loop, fs, n, db, files, sel, trace, resp>>

\* data = await request.json(); model_url = data.get("url"); the validation;
\* the read of the two collaborators.
ParseBody(r) ==
  /\ pc[r] = "await_json"
  /\ OnEventLoop(r)
  /\ IF body[r].kind = "malformed"
     THEN /\ Log(r, <<Event(Step("json"), <<"JSONDecodeError">>)>>)
          /\ Return(r, Catch("JSONDecodeError"))
     ELSE IF body[r].kind = "list"
     THEN /\ Log(r, <<Event(Step("json"), <<"ok">>),
                      Event(Step("data.get"), <<"AttributeError">>)>>)
          /\ Return(r, Catch("AttributeError"))
     ELSE IF Falsy(DictGet(body[r], "url"))
     THEN /\ Log(r, <<Event(Step("json"), <<"ok">>)>>)
          /\ Return(r, Err(UrlRequiredMsg(endpoint[r])))
     ELSE IF state.pipeline_function = "unset" \/ state.DB_class = "unset"
     THEN /\ Log(r, <<Event(Step("json"), <<"ok">>),
                      Event(Step("state"), <<"AttributeError">>)>>)
          /\ Return(r, Catch("AttributeError"))
     ELSE /\ Log(r, <<Event(Step("json"), <<"ok">>)>>)
          /\ Goto(r, "get")
  /\ UNCHANGED <<state, serverUp, fs, endpoint, body, n, db, files, sel>>

\* requests.get(model_url, stream=True); r.raise_for_status()
Get(r) ==
  /\ pc[r] = "get"
  /\ OnEventLoop(r)
  /\ \E out \in {"ConnectionError", "404", "200"} :
       /\ Log(r, <<Event(GetCall(ModelUrl(r)), <<out>>)>>)
       /\ IF GetRaises(out) = "" THEN Goto(r, "open")
          ELSE Return(r, Catch(GetRaises(out)))
  /\ UNCHANGED <<state, serverUp, fs, endpoint, body, n, db, files, sel>>

\* open(local_filename, 'wb'): truncates the scratch file; the scratch
\* directory itself cannot be opened as a file.
OpenScratch(r) ==
  /\ pc[r] = "open"
  /\ OnEventLoop(r)
  /\ LET name == LocalFilename(ModelUrl(r)) IN
     IF name = ""
     THEN /\ Log(r, <<Event(Step("open"), <<"IsADirectoryError">>)>>)
          /\ Return(r, Catch("IsADirectoryError"))
          /\ UNCHANGED fs
     ELSE /\ Log(r, <<Event(Step("open"), <<"ok">>)>>)
          /\ fs' = [fs EXCEPT ![name] = [exists |-> TRUE, data |-> <<>>]]
          /\ Goto(r, "stream")
  /\ UNCHANGED <<state, serverUp, endpoint, body, n, db, files, sel>>

\* for chunk in r.iter_content(...): f.write(chunk) -- one iteration, or the
\* stream breaking; after the last chunk both `with` blocks close.
StreamChunk(r) ==
  /\ pc[r] = "stream"
  /\ OnEventLoop(r)
  /\ n[r] < NChunks
  /\ LET name == LocalFilename(ModelUrl(r)) IN
     \E out \in {"chunk", "ChunkedEncodingError"} :
       IF out = "chunk"
       THEN /\ fs' = [fs EXCEPT ![name].data =
                        Append(@, Content(ModelUrl(r))[n[r] + 1])]
            /\ IF n[r] + 1 = NChunks
               THEN /\ n' = [n EXCEPT ![r] = 0]
                    /\ Log(r, <<Event(Step("downloaded"), <<"ok">>)>>)
                    /\ Goto(r, "start")
               ELSE /\ n' = [n EXCEPT ![r] = @ + 1]
                    /\ Goto(r, "stream")
                    /\ UNCHANGED trace
       ELSE /\ Log(r, <<Event(Step("stream"), <<out>>)>>)
            /\ Return(r, Catch(out))
            /\ UNCHANGED <<fs, n>>
  /\ UNCHANGED <<state, serverUp, endpoint, body, db, files, sel>>

\* The animate handler's look-up of the reference animation (rig: nothing to
\* look up), then db = DB_class() and the call of pipeline_function, which
\* only creates the generator.
StartPipeline(r) ==
  /\ pc[r] = "start"
  /\ OnEventLoop(r)
  /\ \E present \in SUBSET {PrimaryAnimation, FallbackAnimation},
        made \in {"ok", "TypeError"} :
       LET e == endpoint[r]
           af == AnimationFile(e, present)
           seen == IF e = "rig" THEN <<>>
                   ELSE <<Event(Step("isfile"),
                                IF af = NoAnimation THEN <<"none">>
                                ELSE <<af[1]>>)>>
       IN
       /\ e = "rig" => present = {}
       /\ IF e = "animate" /\ af = NoAnimation
          THEN /\ made = "ok"
               /\ Log(r, seen)
               /\ Return(r, Err(<<"Default animation file not found">>))
               /\ UNCHANGED db
          ELSE IF made # "ok"
          THEN /\ Log(r, seen \o <<Event(DBCall, <<made>>)>>)
               /\ Return(r, Catch(made))
               /\ UNCHANGED db
          ELSE /\ Log(r, seen \o <<Event(DBCall, <<"ok">>),
                                   Event(PipelineCall(ModelUrl(r), af), <<"generator">>)>>)
               /\ db' = [db EXCEPT ![r] = EmptyDB]
               /\ Goto(r, "drain")
  /\ UNCHANGED <<state, serverUp, fs, endpoint, body, n, files, sel>>

\* What one step of the pipeline may do to the result record and the disk.
PipelineEffects == {"none", "vis+", "vis-", "anim+", "anim-"}

\* `for step in pipeline_function(...): pass` -- one next() of the generator:
\* it yields a step (having possibly set a field of the record and written
\* the file), which the loop discards, or it raises, or it is exhausted.
PipelineNext(r) ==
  /\ pc[r] = "drain"
  /\ OnEventLoop(r)
  /\ \E out \in {"yield", "RuntimeError", "StopIteration"}, eff \in PipelineEffects :
       IF out = "yield" /\ ~LoopExits(out)
       THEN /\ n[r] < MaxSteps
            /\ db' = [db EXCEPT ![r] =
                  CASE eff \in {"vis+", "vis-"} -> [@ EXCEPT !.anim_vis_path = VisPath]
                    [] eff \in {"anim+", "anim-"} -> [@ EXCEPT !.anim_path = AnimPath]
                    [] OTHER -> @]
            /\ files' = [files EXCEPT ![r] =
                  CASE eff = "vis+" -> @ \cup {VisPath}
                    [] eff = "vis-" -> @ \ {VisPath}
                    [] eff = "anim+" -> @ \cup {AnimPath}
                    [] eff = "anim-" -> @ \ {AnimPath}
                    [] OTHER -> @]
            /\ n' = [n EXCEPT ![r] = @ + 1]
            /\ Goto(r, "drain")
            /\ UNCHANGED trace
       ELSE /\ eff = "none"
            /\ Log(r, <<Event(Step("next"), <<out>>)>>)
            /\ n' = [n EXCEPT ![r] = 0]
            /\ IF LoopExits(out) THEN Goto(r, "select")
               ELSE Return(r, Catch(out))
            /\ UNCHANGED <<db, files>>
  /\ UNCHANGED <<state, serverUp, fs, endpoint, body, sel>>

\* The output selection; with no output on disk the handler returns an error.
Select(r) ==
  /\ pc[r] = "select"
  /\ OnEventLoop(r)
  /\ LET path == SelectOutput(db[r], files[r]) IN
     IF path = NoPath
     THEN /\ Log(r, <<Event(Step("select"), <<"none">>)>>)
          /\ Return(r, Err(NoOutputMsg(endpoint[r])))
          /\ UNCHANGED sel
     ELSE /\ Log(r, <<Event(Step("select"), <<path[2]>>)>>)
          /\ sel' = [sel EXCEPT ![r] = path]
          /\ Goto(r, "upload")
  /\ UNCHANGED <<state, serverUp, fs, endpoint, body, n, db, files>>

\* What the storage backend may answer: a status code and a body that is not
\* JSON, or a JSON object with a persistentUrl, an empty one, or none.
UploadResponses ==
  ({"200"} \X {"url", "empty", "nofield", "notjson"})
    \cup ({"201", "500"} \X {"url"})

\* open(rigged_path, "rb"), the POST, and the reading of its response.
Upload(r) ==
  /\ pc[r] = "upload"
  /\ OnEventLoop(r)
  /\ LET post == UploadCall(endpoint[r], sel[r]) IN
     \/ /\ Log(r, <<Event(Step("open_output"), <<"PermissionError">>)>>)
        /\ Return(r, Catch("PermissionError"))
     \/ /\ Log(r, <<Event(post, <<"ConnectionError">>)>>)
        /\ Return(r, Catch("ConnectionError"))
     \/ \E a \in UploadResponses :
          /\ Log(r, <<Event(post, <<a[1], a[2]>>)>>)
          /\ Return(r, UploadResult(post, a))
  /\ UNCHANGED <<state, serverUp, fs, endpoint, body, n, db, files, sel>>

\* The response has been sent and the coroutine's frame is gone; the scratch
\* file stays on disk.
Retire(r) ==
  /\ pc[r] = "done"
  /\ pc' = [pc EXCEPT ![r] = "idle"]
  /\ endpoint' = [endpoint EXCEPT ![r] = "rig"]
  /\ body' = [body EXCEPT ![r] = [kind |-> "malformed", fields |-> {}]]
  /\ n' = [n EXCEPT ![r] = 0]
  /\ db' = [db EXCEPT ![r] = EmptyDB]
  /\ files' = [files EXCEPT ![r] = {}]
  /\ sel' = [sel EXCEPT ![r] = NoPath]
  /\ trace' = [trace EXCEPT ![r] = <<>>]
  /\ resp' = [resp EXCEPT ![r] = <<>>]
  /\ UNCHANGED <<state, serverUp, loop, fs>>

Handler(r) ==
  \/ ParseBody(r)
  \/ Get(r)
  \/ OpenScratch(r)
  \/ StreamChunk(r)
  \/ StartPipeline(r)
  \/ PipelineNext(r)
  \/ Select(r)
  \/ Upload(r)

Next ==
  \/ run_api
  \/ \E r \in Requests : Arrive(r)
  \/ \E r \in Requests : Handler(r)
  \/ \E r \in Requests : Retire(r)

Spec == Init /\ [][Next]_vars

\* ------------------------------------------------------------- the claims
Finished(r) == pc[r] = "done"
Reply(r) == resp[r][1]
Events(r) == {trace[r][i] : i \in DOMAIN trace[r]}
Ops(r) == [i \in DOMAIN trace[r] |-> trace[r][i].call.op]
HasOp(r, op) == \E ev \in Events(r) : ev.call.op = op
Times(r, op) == Cardinality({i \in DOMAIN trace[r] : trace[r][i].call.op = op})
HasUrl(r) == body[r].kind = "dict" /\ ~Falsy(DictGet(body[r], "url"))
Started(r) == pc[r] \notin {"idle", "await_json"}
VisOk(r) == db[r].anim_vis_path # NoPath /\ db[r].anim_vis_path \in files[r]
AnimOk(r) == db[r].anim_path # NoPath /\ db[r].anim_path \in files[r]
Selecting(r) == HasOp(r, "select")
CollaboratorOps == {"GET", "DB_class", "pipeline_function", "POST"}

NoUrl(r) ==
  /\ body[r].kind = "dict"
  /\ body[r].fields \in {{}, {<<"url", JsonNull>>}, {<<"url", JsonStr(EmptyStr)>>}}

\* C1: a request whose body carries no usable 'url' (absent, null or empty)
\* is answered with status 'error', and its handler makes no download GET,
\* no upload POST, and never constructs the record or calls the pipeline.
C1_NoUrlFailsFast ==
  \A r \in Requests :
    (Started(r) /\ NoUrl(r)) =>
      /\ Finished(r)
      /\ Reply(r).status = "error"
      /\ \A op \in CollaboratorOps : ~HasOp(r, op)

C1_Witness ==
  \E r1, r2 \in Requests :
    /\ endpoint[r1] = "rig" /\ endpoint[r2] = "animate"
    /\ Finished(r1) /\ Finished(r2)
    /\ body[r1] = [kind |-> "dict", fields |-> {}]
    /\ body[r2] = [kind |-> "dict", fields |-> {<<"url", JsonStr(EmptyStr)>>}]
    /\ Reply(r1).message = UrlRequiredMsg("rig")
    /\ Reply(r2).message = UrlRequiredMsg("animate")

\* C2: once the output has been selected, the selected file is the preview
\* path whenever that is set and on disk (whatever the native path is), the
\* native path when only that one is set and on disk; every upload POST
\* carries the selected file; and after a fallback to the native path an
\* upload answered 200 with a persistentUrl ends in status 'done'.
C2_PreviewPreferred ==
  \A r \in Requests :
    (Selecting(r) /\ (VisOk(r) \/ AnimOk(r))) =>
      /\ VisOk(r) => sel[r] = db[r].anim_vis_path
      /\ (~VisOk(r) /\ AnimOk(r)) => sel[r] = db[r].anim_path
      /\ \A ev \in Events(r) :
           ev.call.op = "POST" => ev.call.filename = Basename(sel[r])
      /\ (Finished(r) /\ ~VisOk(r)
            /\ \E ev \in Events(r) : ev.call.op = "POST" /\ ev.out = <<"200", "url">>)
           => Reply(r).status = "done"

C2_Witness ==
  \E r1, r2 \in Requests :
    /\ r1 # r2 /\ Finished(r1) /\ Finished(r2)
    /\ VisOk(r1) /\ AnimOk(r1) /\ Reply(r1).status = "done"
    /\ \E ev \in Events(r1) :
         ev.call.op = "POST" /\ ev.call.filename = Basename(VisPath)
    /\ ~VisOk(r2) /\ db[r2].anim_vis_path = VisPath /\ AnimOk(r2)
    /\ Reply(r2).status = "done"
    /\ \E ev \in Events(r2) :
         ev.call.op = "POST" /\ ev.call.filename = Basename(AnimPath)

\* C3: when, at the selection, neither path of the record names a file on
\* disk, the request ends with status 'error' and makes no upload POST.
C3_NoOutputNoUpload ==
  \A r \in Requests :
    (Selecting(r) /\ ~VisOk(r) /\ ~AnimOk(r)) =>
      /\ Finished(r)
      /\ Reply(r).status = "error"
      /\ Reply(r).message = NoOutputMsg(endpoint[r])
      /\ ~HasOp(r, "POST")

C3_Witness ==
  \E r1, r2 \in Requests :
    /\ endpoint[r1] = "rig" /\ endpoint[r2] = "animate"
    /\ Selecting(r1) /\ Selecting(r2) /\ Finished(r1) /\ Finished(r2)
    /\ db[r1] = EmptyDB
    /\ db[r2] = [anim_vis_path |-> VisPath, anim_path |-> AnimPath]
    /\ files[r2] = {}

\* C4: an upload answered with a status other than 200 ends the request with
\* status 'error', a message that contains the status code, and no
\* persistentUrl.
C4_UploadStatusReported ==
  \A r \in Requests : \A ev \in Events(r) :
    (ev.call.op = "POST" /\ Len(ev.out) = 2 /\ ev.out[1] # "200") =>
      /\ Finished(r)
      /\ Reply(r).status = "error"
      /\ \E i \in DOMAIN Reply(r).message : Reply(r).message[i] = ev.out[1]
      /\ Reply(r).persistentUrl = EmptyStr

C4_Witness ==
  \E r1, r2 \in Requests :
    /\ endpoint[r1] = "rig" /\ endpoint[r2] = "animate"
    /\ Finished(r1) /\ Finished(r2)
    /\ \E ev \in Events(r1) : ev.call.op = "POST" /\ ev.out = <<"500", "url">>
    /\ \E ev \in Events(r2) : ev.call.op = "POST" /\ ev.out = <<"201", "url">>

\* C5: an upload answered 200 whose JSON has no persistentUrl, or an empty
\* one, ends the request with status 'error'; a 'done' payload always
\* carries a non-empty persistentUrl.
C5_PersistentUrlRequired ==
  \A r \in Requests :
    /\ \A ev \in Events(r) :
         (ev.call.op = "POST" /\ Len(ev.out) = 2 /\ ev.out[1] = "200"
            /\ ev.out[2] \in {"empty", "nofield"})
           => (Finished(r) /\ Reply(r).status = "error")
    /\ (Finished(r) /\ Reply(r).status = "done") =>
         (Reply(r).persistentUrl # EmptyStr /\ Reply(r).persistentUrl # <<>>)

C5_Witness ==
  \E r1, r2 \in Requests :
    /\ endpoint[r1] = "rig" /\ endpoint[r2] = "animate"
    /\ Finished(r1) /\ Finished(r2)
    /\ \E ev \in Events(r1) : ev.call.op = "POST" /\ ev.out = <<"200", "nofield">>
    /\ \E ev \in Events(r2) : ev.call.op = "POST" /\ ev.out = <<"200", "empty">>
    /\ Reply(r1).message = NoPersistentMsg

\* The text of the exception a step of the trace raised, "" when it raised
\* none.
Raised(ev) ==
  IF ev.call.op = "GET" /\ ev.out = <<"404">> THEN "404 Client Error"
  ELSE IF ev.call.op = "POST" /\ ev.out = <<"200", "notjson">> THEN "JSONDecodeError"
  ELSE IF ev.out[1] \in {"JSONDecodeError", "AttributeError", "ConnectionError",
                         "IsADirectoryError", "ChunkedEncodingError", "TypeError",
                         "RuntimeError", "PermissionError"}
  THEN ev.out[1]
  ELSE ""

\* C6: a request has a payload exactly when its handler has ended, and then
\* exactly one, with status 'done' or 'error'; an exception raised by any
\* step is answered with status 'error' and the exception's text as message;
\* no step is made twice; and the server stays up whatever the handlers meet.
C6_EveryFailureIsAnErrorPayload ==
  /\ (\E r \in Requests : pc[r] # "idle") => serverUp
  /\ \A r \in Requests :
       /\ Len(resp[r]) = (IF Finished(r) THEN 1 ELSE 0)
       /\ Finished(r) => Reply(r).status \in {"done", "error"}
       /\ \A ev \in Events(r) :
            Raised(ev) # "" =>
              /\ Finished(r)
              /\ ev = trace[r][Len(trace[r])]
              /\ Reply(r) = [status |-> "error", message |-> <<Raised(ev)>>,
                             persistentUrl |-> EmptyStr]
       /\ \A op \in CollaboratorOps \cup {"json", "open", "select", "open_output"} :
            Times(r, op) <= 1

C6_Witness ==
  \E r1, r2 \in Requests :
    /\ r1 # r2 /\ serverUp
    /\ Finished(r1)
    /\ \E ev \in Events(r1) : ev.call.op = "next" /\ Raised(ev) = "RuntimeError"
    /\ Reply(r1).message = <<"RuntimeError">>
    /\ pc[r2] = "drain"

\* C8: a failed download (the GET raising, a non-success status, the stream
\* breaking) ends the request with status 'error' and the exception's text,
\* and the request never constructs the record, never calls the pipeline
\* and never uploads.
C8_DownloadFailureStops ==
  \A r \in Requests : \A ev \in Events(r) :
    ((ev.call.op = "GET" /\ ev.out # <<"200">>) \/ ev.call.op = "stream") =>
      /\ Finished(r)
      /\ Reply(r).status = "error"
      /\ Reply(r).message = <<Raised(ev)>>
      /\ Raised(ev) # ""
      /\ \A op \in {"DB_class", "pipeline_function", "POST"} : ~HasOp(r, op)

C8_Witness ==
  \E r1, r2 \in Requests :
    /\ endpoint[r1] = "rig" /\ endpoint[r2] = "animate"
    /\ Finished(r1) /\ Finished(r2)
    /\ \E ev \in Events(r1) : ev.call.op = "GET" /\ ev.out = <<"404">>
    /\ \E ev \in Events(r2) : ev.call.op = "stream"
    /\ fs[LocalFilename(ModelUrl(r2))].exists
    /\ Len(fs[LocalFilename(ModelUrl(r2))].data) = 1

\* The steps of a handler that ends in 'done', in order.
DoneOps(e) ==
  <<"json", "GET", "open", "downloaded">>
    \o (IF e = "animate" THEN <<"isfile">> ELSE <<>>)
    \o <<"DB_class", "pipeline_function", "next", "select", "POST">>

\* C9: a request answered 'done' made exactly these steps, once each and in
\* this order: download, record construction, pipeline call, the drain to
\* exhaustion, selection, one upload answered 200 with a persistentUrl; the
\* payload carries that persistentUrl. In every request the selection and
\* the upload come after the step that found the pipeline exhausted.
C9_StepsInOrder ==
  \A r \in Requests :
    /\ (Finished(r) /\ Reply(r).status = "done") =>
         /\ Ops(r) = DoneOps(endpoint[r])
         /\ LET post == trace[r][Len(trace[r])] IN
            /\ post.out = <<"200", "url">>
            /\ Reply(r).persistentUrl =
                 DictGet(ResponseJson("url", post.call.filename), "persistentUrl")[2]
         /\ \A ev \in Events(r) : Raised(ev) = ""
    /\ \A i \in DOMAIN trace[r] :
         trace[r][i].call.op \in {"select", "POST", "open_output"} =>
           \E j \in 1..(i - 1) :
             /\ trace[r][j].call.op = "next"
             /\ trace[r][j].out = <<"StopIteration">>
             /\ \E k \in 1..(j - 1) : trace[r][k].call.op = "downloaded"

C9_Witness ==
  \E r1, r2 \in Requests :
    /\ endpoint[r1] = "rig" /\ endpoint[r2] = "animate"
    /\ Finished(r1) /\ Finished(r2)
    /\ Reply(r1).status = "done" /\ Reply(r2).status = "done"
    /\ Reply(r1).persistentUrl = PersistentUrlOf(Basename(VisPath))
    /\ Reply(r2).persistentUrl = PersistentUrlOf(Basename(AnimPath))

\* C10: handlers never change the collaborator references, and while the
\* pipeline of a request runs, the scratch file it was given holds exactly
\* what that request downloaded, also when another request names the same
\* scratch file.
C10_RequestsIsolated ==
  /\ serverUp => state = [pipeline_function |-> "_pipeline", DB_class |-> "DB"]
  /\ \A r \in Requests :
       pc[r] = "drain" =>
         fs[LocalFilename(ModelUrl(r))] =
           [exists |-> TRUE, data |-> Content(ModelUrl(r))]

C10_Witness ==
  \E r1, r2 \in Requests :
    /\ r1 # r2
    /\ pc[r1] = "drain" /\ ModelUrl(r1) = UrlA
    /\ pc[r2] = "await_json" /\ HasUrl(r2) /\ ModelUrl(r2) = UrlB
    /\ fs[LocalFilename(UrlB)].data = Content(UrlA)

\* What the environment did to a request: every answer but the look-up of
\* the reference animation, and the pipeline's effect on record and disk.
EnvOf(r) ==
  <<[i \in DOMAIN SelectSeq(trace[r], LAMBDA ev : ev.call.op # "isfile") |->
       SelectSeq(trace[r], LAMBDA ev : ev.call.op # "isfile")[i].out],
    db[r], files[r]>>

\* The calls a request made, the animation_file argument left out.
CallsOf(r) ==
  LET evs == SelectSeq(trace[r], LAMBDA ev : ev.call.op # "isfile") IN
  [i \in DOMAIN evs |->
     IF evs[i].call.op = "pipeline_function"
     THEN [evs[i].call EXCEPT !.arg = <<@[1], NoAnimation, @[3]>>]
     ELSE evs[i].call]

\* C7: a rig request and an animate request with the same body, met by the
\* same behaviour of download, pipeline, disk and backend, and with the
\* reference animation on disk, make the same calls (the animation_file
\* argument apart) and end with the same status.
C7_SameContract ==
  \A r1, r2 \in Requests :
    (/\ endpoint[r1] = "rig" /\ endpoint[r2] = "animate"
     /\ Finished(r1) /\ Finished(r2)
     /\ body[r1] = body[r2]
     /\ EnvOf(r1) = EnvOf(r2)
     /\ \A ev \in Events(r2) : ev.call.op = "isfile" => ev.out # <<"none">>)
    => /\ CallsOf(r1) = CallsOf(r2)
       /\ Reply(r1).status = Reply(r2).status

====
